---- MODULE Spec2Model ----
(***************************************************************************)
(* RoomEase trust-score engine (lib/trust.ts) over the Firestore helpers   *)
(* (lib/firebase.ts).                                                      *)
(*                                                                         *)
(* Documents are modelled as TLA+ records whose DOMAIN is the set of the   *)
(* fields the JavaScript object holds: a field that is undefined is a      *)
(* field that is not in the DOMAIN.  The users collection is a function    *)
(* from the ids of the documents that exist to those documents.            *)
(***************************************************************************)
EXTENDS Integers, Sequences, FiniteSets, TLC

(***************************************************************************)
(* TRUST_CONSTANTS                                                         *)
(***************************************************************************)
INITIAL_SCORE == 100
MIN_SCORE == 0
MAX_SCORE == 150
THRESHOLD_LOW == 30
THRESHOLD_MEDIUM == 70
THRESHOLD_HIGH == 100

POINTS_CHORE_COMPLETED == 2
POINTS_CHORE_CONFIRMED == 1
POINTS_CHORE_DISPUTED_VALID == -5
POINTS_CHORE_DISPUTED_INVALID == -1
POINTS_FALSE_COMPLETION == -10
POINTS_BILL_PAID_ON_TIME == 3
POINTS_BILL_PAID_LATE == -2
POINTS_HELPFUL_ACTION == 5

(***************************************************************************)
(* Bounds of the model.                                                    *)
(***************************************************************************)
\* calls the clients issue altogether
MaxOps == 3
\* attempts of one runTransaction before it gives up (the SDK's retry budget)
MaxAttempts == 2
\* the longest streak of completions a caller reports as consecutiveCount
MaxCount == 20
\* the most trust action records the history checks start from
MaxLog == 3
\* the largest explicit limit passed to getTrustHistory
MaxLimit == 2
\* fetchUserData calls the AuthProvider starts
MaxFetches == 3
\* payment records processPayment creates
MaxPayments == 2
\* members a bill is split over
MaxMembers == 4
\* the bill totals split, in cents, besides 100.00
MaxTotalCents == 120

(***************************************************************************)
(* JavaScript helpers.                                                     *)
(***************************************************************************)
Max(a, b) == IF a >= b THEN a ELSE b
Min(a, b) == IF a <= b THEN a ELSE b

\* obj?.field is present
Has(obj, field) == field \in DOMAIN obj

\* an object with no fields, and an absent (undefined) optional argument
NoFields == [f \in {} |-> TRUE]

(***************************************************************************)
(* Score Policy: pure functions.                                           *)
(***************************************************************************)
TrustActionType ==
    { "chore_completed", "chore_confirmed", "chore_disputed_valid",
      "chore_disputed_invalid", "false_completion", "bill_paid_on_time",
      "bill_paid_late", "helpful_action", "manual_adjustment" }

getTrustLevelLE(score) ==
    IF score <= THRESHOLD_LOW THEN "critical"
    ELSE IF score <= THRESHOLD_MEDIUM THEN "low"
    ELSE IF score <= THRESHOLD_HIGH THEN "medium"
    ELSE "high"

getTrustLevel(score) ==
    IF score < THRESHOLD_LOW THEN "critical"
    ELSE IF score < THRESHOLD_MEDIUM THEN "low"
    ELSE IF score < THRESHOLD_HIGH THEN "medium"
    ELSE "high"

canPerformActionBillsFromLow(score, action) ==
    LET level == getTrustLevel(score) IN
    CASE action = "create_chore" -> level # "critical"
      [] action = "dispute_chore" -> score >= THRESHOLD_LOW
      [] action = "manage_bills" -> score >= THRESHOLD_LOW
      [] action = "invite_members" -> score >= THRESHOLD_HIGH
      [] action = "delete_items" -> score >= THRESHOLD_MEDIUM
      [] OTHER -> TRUE

canPerformAction(score, action) ==
    LET level == getTrustLevel(score) IN
    CASE action = "create_chore" -> level # "critical"
      [] action = "dispute_chore" -> score >= THRESHOLD_LOW
      [] action = "manage_bills" -> score >= THRESHOLD_MEDIUM
      [] action = "invite_members" -> score >= THRESHOLD_HIGH
      [] action = "delete_items" -> score >= THRESHOLD_MEDIUM
      [] OTHER -> TRUE

\* obj.field = value
With(obj, field, value) ==
    [f \in DOMAIN obj \cup {field} |-> IF f = field THEN value ELSE obj[f]]

\* the restrictions object before the switch on the level; message: undefined
\* is a field that is not there
BaseRestrictions(score, requiresConfirmation) ==
    [canCreateChores |-> canPerformAction(score, "create_chore"),
     canDisputeChores |-> canPerformAction(score, "dispute_chore"),
     canManageBills |-> canPerformAction(score, "manage_bills"),
     canInviteMembers |-> canPerformAction(score, "invite_members"),
     canDeleteItems |-> canPerformAction(score, "delete_items"),
     requiresConfirmation |-> requiresConfirmation]

MAX_CHORES_CRITICAL == 2
MAX_CHORES_LOW == 5

LevelRestrictionsCapsSwapped(restrictions, level) ==
    CASE level = "critical" ->
            With(With(restrictions, "maxChoresPerWeek", MAX_CHORES_LOW), "message",
                 "Your trust score is critically low. Some features are restricted.")
      [] level = "low" ->
            With(With(restrictions, "maxChoresPerWeek", MAX_CHORES_CRITICAL), "message",
                 "Your trust score is low. Complete chores reliably to improve it.")
      [] level = "medium" ->
            With(restrictions, "message", "Good standing! Keep up the reliable work.")
      [] level = "high" ->
            With(restrictions, "message",
                 "Excellent trustworthiness! You have full privileges.")

\* the switch on the level of getTrustRestrictions
LevelRestrictions(restrictions, level) ==
    CASE level = "critical" ->
            With(With(restrictions, "maxChoresPerWeek", MAX_CHORES_CRITICAL), "message",
                 "Your trust score is critically low. Some features are restricted.")
      [] level = "low" ->
            With(With(restrictions, "maxChoresPerWeek", MAX_CHORES_LOW), "message",
                 "Your trust score is low. Complete chores reliably to improve it.")
      [] level = "medium" ->
            With(restrictions, "message", "Good standing! Keep up the reliable work.")
      [] level = "high" ->
            With(restrictions, "message",
                 "Excellent trustworthiness! You have full privileges.")

getTrustRestrictionsConfirmCritical(score) ==
    LET level == getTrustLevel(score) IN
    LevelRestrictions(BaseRestrictions(score, level = "critical"), level)

getTrustRestrictions(score) ==
    LET level == getTrustLevel(score) IN
    LevelRestrictions(BaseRestrictions(score, level = "critical" \/ level = "low"), level)

\* context?.isRecurring, context?.wasOnTime as a condition
Truthy(context, field) == Has(context, field) /\ context[field] = TRUE

StreakAppliesFromSix(context) ==
    /\ Has(context, "consecutiveCount")
    /\ context.consecutiveCount >= 6

\* context?.consecutiveCount && context.consecutiveCount >= 5
StreakApplies(context) ==
    /\ Has(context, "consecutiveCount")
    /\ context.consecutiveCount # 0
    /\ context.consecutiveCount >= 5

calculateTrustChangeBaseForAll(actionType, context) ==
    CASE actionType = "chore_completed" ->
            POINTS_CHORE_COMPLETED
            + (IF Truthy(context, "isRecurring") THEN 1 ELSE 0)
            + (IF StreakApplies(context)
               THEN Min(context.consecutiveCount - 4, 3) ELSE 0)
      [] actionType = "chore_confirmed" -> POINTS_CHORE_CONFIRMED
      [] actionType = "chore_disputed_valid" -> POINTS_CHORE_DISPUTED_VALID
      [] actionType = "chore_disputed_invalid" -> POINTS_CHORE_DISPUTED_INVALID
      [] actionType = "false_completion" -> POINTS_FALSE_COMPLETION
      [] actionType = "bill_paid_on_time" ->
            IF Truthy(context, "wasOnTime")
            THEN POINTS_BILL_PAID_ON_TIME ELSE POINTS_BILL_PAID_LATE
      [] actionType = "bill_paid_late" -> POINTS_BILL_PAID_LATE
      [] actionType = "helpful_action" -> POINTS_HELPFUL_ACTION
      [] OTHER -> POINTS_CHORE_CONFIRMED

calculateTrustChange(actionType, context) ==
    CASE actionType = "chore_completed" ->
            POINTS_CHORE_COMPLETED
            + (IF Truthy(context, "isRecurring") THEN 1 ELSE 0)
            + (IF StreakApplies(context)
               THEN Min(context.consecutiveCount - 4, 3) ELSE 0)
      [] actionType = "chore_confirmed" -> POINTS_CHORE_CONFIRMED
      [] actionType = "chore_disputed_valid" -> POINTS_CHORE_DISPUTED_VALID
      [] actionType = "chore_disputed_invalid" -> POINTS_CHORE_DISPUTED_INVALID
      [] actionType = "false_completion" -> POINTS_FALSE_COMPLETION
      [] actionType = "bill_paid_on_time" ->
            IF Truthy(context, "wasOnTime")
            THEN POINTS_BILL_PAID_ON_TIME ELSE POINTS_BILL_PAID_LATE
      [] actionType = "bill_paid_late" -> POINTS_BILL_PAID_LATE
      [] actionType = "helpful_action" -> POINTS_HELPFUL_ACTION
      [] OTHER -> 0


\* userData.trustScore || TRUST_CONSTANTS.INITIAL_SCORE
CurrentScore(userData) ==
    IF Has(userData, "trustScore") /\ userData.trustScore # 0
    THEN userData.trustScore
    ELSE INITIAL_SCORE

AdjustNewScoreNoFloor(currentScore, pointChange) ==
    Min(MAX_SCORE, currentScore + pointChange)

\* the new score adjustTrustScore computes in the transaction body
AdjustNewScore(currentScore, pointChange) ==
    Max(MIN_SCORE, Min(MAX_SCORE, currentScore + pointChange))

\* the clampedScore of resetTrustScore
ResetClampedScore(newScore) ==
    Max(MIN_SCORE, Min(MAX_SCORE, newScore))

(***************************************************************************)
(* The store.                                                              *)
(***************************************************************************)
\* ids that callers pass; "u3" has no user document
UserIds == {"u1", "u3"}
Clients == {"c1", "c2"}
\* the clients that call resetTrustScore (an admin function)
Admins == {"c2"}
RoomId == "room1"

\* scores the first user's document starts with
InitScores == {5, 100, 148}

\* what callers pass to adjustTrustScore: <<actionType, context>>
ApplyInputs ==
    { <<"chore_completed", NoFields>>,
      <<"chore_completed", [isRecurring |-> TRUE, consecutiveCount |-> 8]>>,
      <<"false_completion", NoFields>> }

\* what callers pass to resetTrustScore as newScore
ResetTargets == {-20, 120, 400}

VARIABLES
    users,          \* the users collection: id -> document, for the documents that exist
    trustActions,   \* the trustActions collection, in the order the store created the documents
    now,            \* the clock
    pc,             \* where each client's current call stands
    call,           \* the arguments and locals of each client's current call
    result,         \* what each client's last call returned
    opsDone,        \* the calls the clients have issued
    auditWrite,     \* history: auditWrite[i] is the number, among the committed writes of
                    \* that user's trustScore, of the write trustActions[i] documents
    job,            \* the action handler each client is running or ran last
    chores,         \* the chores collection, in the order a query returns the documents
    auth,           \* the AuthProvider: the signed-in account, the component's state and
                    \* its fetchUserData calls in flight
    payments,       \* the payments collection, in the order the store created the documents
    payJob,         \* the processPayment call running, or the one that ran last
    arg,            \* policy checks: the input
    out             \* policy checks: the output

vars == <<users, trustActions, now, pc, call, result, opsDone, auditWrite, job, chores,
          auth, payments, payJob, arg, out>>
payVars == <<payments, payJob>>
\* the collections and components that only some handlers use
sideVars == <<chores, auth, payVars>>
storeVars == <<users, trustActions, now, pc, call, result, opsDone, auditWrite, job, sideVars>>
policyVars == <<arg, out>>

NoCall == [op |-> "none"]
NoResult == [op |-> "none"]
NoJob == [op |-> "none", status |-> "none"]

\* the AuthProvider as mounted: useState(null), useState(null), useState(true)
AuthMounted ==
    [current |-> "none", firebaseUser |-> "none", user |-> NoFields, loading |-> TRUE,
     tasks |-> {}, started |-> 0, firstAuth |-> {}]

\* nothing is stored in, or running on, what only some handlers use
PaymentsIdle == payments = << >> /\ payJob = NoJob

SideIdle == chores = << >> /\ auth = AuthMounted /\ PaymentsIdle

UserDoc(id, score) == [id |-> id, trustScore |-> score, version |-> 0, updatedAt |-> 0]
UserDocNoScore(id) == [id |-> id, version |-> 0, updatedAt |-> 0]

StoreInit ==
    /\ \E d \in {UserDoc("u1", s) : s \in InitScores} \cup {UserDocNoScore("u1")} :
          users = [u \in {"u1"} |-> d]
    /\ trustActions = << >>
    /\ now = 0
    /\ pc = [c \in Clients |-> "idle"]
    /\ call = [c \in Clients |-> NoCall]
    /\ result = [c \in Clients |-> NoResult]
    /\ opsDone = 0
    /\ auditWrite = << >>
    /\ job = [c \in Clients |-> NoJob]
    /\ SideIdle

PolicyIdle == arg = 0 /\ out = [fn |-> "none"]

Init == StoreInit /\ PolicyIdle

\* the call of client c returns r
Return(c, r) ==
    /\ pc' = [pc EXCEPT ![c] = "idle"]
    /\ call' = [call EXCEPT ![c] = NoCall]
    /\ result' = [result EXCEPT ![c] = r]

(***************************************************************************)
(* adjustTrustScore                                                        *)
(*                                                                         *)
(* runTransaction is the Firestore client transaction: the body reads the  *)
(* user document and buffers its writes, the commit applies both writes    *)
(* together if the document read has not changed since, and otherwise the  *)
(* body runs again until the attempts are used up.  An error thrown by the *)
(* body, or a rejected commit, rejects runTransaction, and                 *)
(* runFirestoreTransaction turns the rejection into { data: null, error }. *)
(* doc, db and collection in the body are the Firestore SDK's (trust.ts    *)
(* does not import them; a body that throws on them takes the same path as *)
(* TxUnavailable).  reason and relatedId are passed through to the record  *)
(* unread and are left out.                                                *)
(***************************************************************************)
\* the call starts: pointChange is computed, runFirestoreTransaction is entered
AdjustStart(c, userId, actionType, context, createdBy) ==
    /\ pc[c] = "idle"
    /\ opsDone < MaxOps
    /\ opsDone' = opsDone + 1
    /\ call' = [call EXCEPT ![c] =
                  [op |-> "adjustTrustScore", userId |-> userId, roomId |-> RoomId,
                   actionType |-> actionType, createdBy |-> createdBy,
                   pointChange |-> calculateTrustChange(actionType, context),
                   attempts |-> 0]]
    /\ pc' = [pc EXCEPT ![c] = "txBody"]
    /\ UNCHANGED <<users, trustActions, now, result, auditWrite>>

\* what adjustTrustScore returns when runFirestoreTransaction returned
\* { data: null, error }: the error field is not looked at
AdjustReturnAfterError(c, message) ==
    Return(c, [op |-> "adjustTrustScore", userId |-> call[c].userId,
               success |-> TRUE, txError |-> message,
               committed |-> FALSE, records |-> 0])

\* the transaction body runs: transaction.get, then the writes are buffered
TxBody(c) ==
    /\ pc[c] = "txBody"
    /\ LET u == call[c].userId IN
       IF u \notin DOMAIN users
       THEN \* throw new Error('User not found'): the transaction rejects
            /\ AdjustReturnAfterError(c, "User not found")
            /\ UNCHANGED <<users, trustActions, now, opsDone, auditWrite>>
       ELSE /\ now' = now + 1
            /\ call' = [call EXCEPT ![c] =
                  [f \in DOMAIN call[c] \cup {"userData", "newScore", "createdAt"} |->
                     CASE f = "userData" -> users[u]
                       [] f = "newScore" ->
                            AdjustNewScore(CurrentScore(users[u]), call[c].pointChange)
                       [] f = "createdAt" -> now + 1
                       [] OTHER -> call[c][f]]]
            /\ pc' = [pc EXCEPT ![c] = "txCommit"]
            /\ UNCHANGED <<users, trustActions, result, opsDone, auditWrite>>

\* the trust action record of adjustTrustScore
AdjustRecord(k) ==
    [userId |-> k.userId, roomId |-> k.roomId, action |-> k.actionType,
     points |-> k.pointChange, createdBy |-> k.createdBy, createdAt |-> k.createdAt]

\* transaction.set(doc(collection(db, 'trustActions')), trustAction): a new document
TransactionSet(coll, data) == Append(coll, data)

\* history: another client's adjustTrustScore on the same user is under way
OtherAdjustInFlight(c, u) ==
    \E o \in Clients \ {c} :
        /\ call[o].op = "adjustTrustScore"
        /\ call[o].userId = u

\* the commit: the document read is unchanged, both writes are applied together
TxCommit(c) ==
    /\ pc[c] = "txCommit"
    /\ LET k == call[c]
           u == k.userId IN
       /\ u \in DOMAIN users
       /\ users[u].version = k.userData.version
       /\ UNCHANGED now
       /\ users' = [users EXCEPT ![u] =
             [f \in DOMAIN users[u] \cup {"trustScore"} |->
                CASE f = "trustScore" -> k.newScore
                  [] f = "updatedAt" -> k.createdAt
                  [] f = "version" -> users[u].version + 1
                  [] OTHER -> users[u][f]]]
       /\ trustActions' = TransactionSet(trustActions, AdjustRecord(k))
       /\ auditWrite' = Append(auditWrite, users[u].version + 1)
       /\ Return(c, [op |-> "adjustTrustScore", userId |-> u,
                     success |-> TRUE, newScore |-> k.newScore,
                     committed |-> TRUE, records |-> 1, record |-> Len(trustActions) + 1,
                     userData |-> k.userData, pointChange |-> k.pointChange,
                     overlap |-> OtherAdjustInFlight(c, u)])
       /\ UNCHANGED opsDone

\* the commit finds the document changed since it was read: the body runs again
TxRetry(c) ==
    /\ pc[c] = "txCommit"
    /\ LET k == call[c] IN
       /\ k.userId \in DOMAIN users
       /\ users[k.userId].version # k.userData.version
       /\ k.attempts + 1 < MaxAttempts
       /\ call' = [call EXCEPT ![c].attempts = @ + 1]
       /\ pc' = [pc EXCEPT ![c] = "txBody"]
    /\ UNCHANGED <<users, trustActions, now, result, opsDone, auditWrite>>

\* the retry budget is used up: runTransaction rejects
TxGiveUp(c) ==
    /\ pc[c] = "txCommit"
    /\ LET k == call[c] IN
       /\ k.userId \in DOMAIN users
       /\ users[k.userId].version # k.userData.version
       /\ k.attempts + 1 >= MaxAttempts
    /\ AdjustReturnAfterError(c, "aborted")
    /\ UNCHANGED <<users, trustActions, now, opsDone, auditWrite>>

\* the commit does not reach the store: runTransaction rejects
TxUnavailable(c) ==
    /\ pc[c] = "txCommit"
    /\ AdjustReturnAfterError(c, "unavailable")
    /\ UNCHANGED <<users, trustActions, now, opsDone, auditWrite>>


(***************************************************************************)
(* resetTrustScore                                                         *)
(***************************************************************************)
\* the trust action record of resetTrustScore, before createDocument stamps it
ResetRecord(userId, clampedScore, resetBy) ==
    [userId |-> userId, roomId |-> RoomId, action |-> "manual_adjustment",
     points |-> clampedScore - INITIAL_SCORE, createdBy |-> resetBy]

\* the data with createdAt set to serverTimestamp()
Stamped(data, t) ==
    [f \in DOMAIN data \cup {"createdAt"} |->
        IF f = "createdAt" THEN t ELSE data[f]]

createDocumentReplacing(coll, data, t) == << Stamped(data, t) >>

\* createDocument: addDoc(collection(db, collectionName), { ...data, createdAt })
createDocument(coll, data, t) == Append(coll, Stamped(data, t))

\* updateDocument('users', userId, { trustScore: clampedScore }) succeeds
ResetUpdate(c, userId, newScore, resetBy) ==
    /\ pc[c] = "idle"
    /\ opsDone < MaxOps
    /\ userId \in DOMAIN users
    /\ opsDone' = opsDone + 1
    /\ now' = now + 1
    /\ LET clampedScore == ResetClampedScore(newScore) IN
       /\ users' = [users EXCEPT ![userId] =
             [f \in DOMAIN users[userId] \cup {"trustScore"} |->
                CASE f = "trustScore" -> clampedScore
                  [] f = "updatedAt" -> now + 1
                  [] f = "version" -> users[userId].version + 1
                  [] OTHER -> users[userId][f]]]
       /\ call' = [call EXCEPT ![c] =
                     [op |-> "resetTrustScore", userId |-> userId, newScore |-> newScore,
                      clampedScore |-> clampedScore, resetBy |-> resetBy,
                      write |-> users[userId].version + 1]]
    /\ pc' = [pc EXCEPT ![c] = "resetCreate"]
    /\ UNCHANGED <<trustActions, result, auditWrite>>

\* updateDocument returns { error }: no such document, or the store cannot be reached
ResetUpdateError(c, userId, newScore, resetBy) ==
    /\ pc[c] = "idle"
    /\ opsDone < MaxOps
    /\ opsDone' = opsDone + 1
    /\ result' = [result EXCEPT ![c] =
                    [op |-> "resetTrustScore", userId |-> userId, success |-> FALSE,
                     error |-> IF userId \in DOMAIN users THEN "unavailable" ELSE "not-found",
                     wrote |-> FALSE, records |-> 0]]
    /\ UNCHANGED <<users, trustActions, now, pc, call, auditWrite>>

\* createDocument('trustActions', ...) succeeds
ResetCreate(c) ==
    /\ pc[c] = "resetCreate"
    /\ now' = now + 1
    /\ LET k == call[c] IN
       /\ trustActions' = createDocument(trustActions,
                            ResetRecord(k.userId, k.clampedScore, k.resetBy), now + 1)
       /\ auditWrite' = Append(auditWrite, k.write)
       /\ Return(c, [op |-> "resetTrustScore", userId |-> k.userId, success |-> TRUE,
                     wrote |-> TRUE, records |-> 1, record |-> Len(trustActions) + 1,
                     newScore |-> k.newScore, resetBy |-> k.resetBy])
    /\ UNCHANGED <<users, opsDone>>

\* createDocument returns { id: null, error }, which resetTrustScore does not look at
ResetCreateError(c) ==
    /\ pc[c] = "resetCreate"
    /\ Return(c, [op |-> "resetTrustScore", userId |-> call[c].userId, success |-> TRUE,
                  wrote |-> TRUE, records |-> 0])
    /\ UNCHANGED <<users, trustActions, now, opsDone, auditWrite>>

(***************************************************************************)
(* The ledger under concurrent clients.                                    *)
(***************************************************************************)
Next ==
    \/ \E c \in Clients, u \in UserIds, in \in ApplyInputs, by \in {"system"} :
          /\ AdjustStart(c, u, in[1], in[2], by)
          /\ UNCHANGED <<policyVars, job, sideVars>>
    \/ \E c \in Clients : TxBody(c) /\ UNCHANGED <<policyVars, job, sideVars>>
    \/ \E c \in Clients : TxCommit(c) /\ UNCHANGED <<policyVars, job, sideVars>>
    \/ \E c \in Clients : TxRetry(c) /\ UNCHANGED <<policyVars, job, sideVars>>
    \/ \E c \in Clients : TxGiveUp(c) /\ UNCHANGED <<policyVars, job, sideVars>>
    \/ \E c \in Clients : TxUnavailable(c) /\ UNCHANGED <<policyVars, job, sideVars>>
    \/ \E c \in Admins, u \in UserIds, n \in ResetTargets :
          /\ ResetUpdate(c, u, n, c)
          /\ UNCHANGED <<policyVars, job, sideVars>>
    \/ \E c \in Admins, u \in UserIds, n \in ResetTargets :
          /\ ResetUpdateError(c, u, n, c)
          /\ UNCHANGED <<policyVars, job, sideVars>>
    \/ \E c \in Clients : ResetCreate(c) /\ UNCHANGED <<policyVars, job, sideVars>>
    \/ \E c \in Clients : ResetCreateError(c) /\ UNCHANGED <<policyVars, job, sideVars>>

Spec == Init /\ [][Next]_vars


(***************************************************************************)
(* handleChoreDispute                                                      *)
(*                                                                         *)
(* The handler awaits each adjustTrustScore call and does not look at what *)
(* it returns.  adjustTrustScore catches whatever its transaction throws,  *)
(* so the handler's own catch is never entered.  resolution is not used,   *)
(* and chore.title only goes into the reason text.                         *)
(***************************************************************************)
\* ids of the members a dispute is about: the assignee and the disputer
DisputeIds == {"u1", "u2"}

\* scores the two user documents start with
DisputeScores == {0, 75, 150}

Chores == { [id |-> "chore1", roomId |-> RoomId, assignedTo |-> a] : a \in DisputeIds }

DisputeInit ==
    /\ users \in { [u \in {"u1", "u2"} |-> UserDoc(u, IF u = "u1" THEN s1 ELSE s2)] :
                     s1 \in DisputeScores, s2 \in DisputeScores }
    /\ trustActions = << >>
    /\ now = 0
    /\ pc = [c \in Clients |-> "idle"]
    /\ call = [c \in Clients |-> NoCall]
    /\ result = [c \in Clients |-> NoResult]
    /\ opsDone = 0
    /\ auditWrite = << >>
    /\ job = [c \in Clients |-> NoJob]
    /\ SideIdle
    /\ PolicyIdle

Running(c) == job[c].status = "running"

\* the adjustTrustScore calls a dispute resolution makes
DisputeCalls(isValidDispute) == IF isValidDispute THEN 1 ELSE 2

\* the adjustTrustScore calls the running handlers have still to make
RECURSIVE PendingCalls(_)
PendingCalls(S) ==
    IF S = {} THEN 0
    ELSE LET c == CHOOSE c \in S : TRUE
         IN (IF Running(c) THEN job[c].pending ELSE 0) + PendingCalls(S \ {c})

\* handleChoreDispute is called and enters its first adjustTrustScore:
\* false_completion on the assignee, or chore_disputed_invalid on the disputer
DisputeStart(c, chore, disputedBy, isValidDispute) ==
    /\ ~Running(c)
    /\ opsDone + PendingCalls(Clients) + DisputeCalls(isValidDispute) <= MaxOps
    /\ job' = [job EXCEPT ![c] =
                 [op |-> "handleChoreDispute", status |-> "running", chore |-> chore,
                  disputedBy |-> disputedBy, isValidDispute |-> isValidDispute,
                  pending |-> DisputeCalls(isValidDispute) - 1, calls |-> << >>]]
    /\ IF isValidDispute
       THEN AdjustStart(c, chore.assignedTo, "false_completion", NoFields, disputedBy)
       ELSE AdjustStart(c, disputedBy, "chore_disputed_invalid", NoFields, chore.assignedTo)

\* the first call of an invalid dispute has returned: chore_confirmed on the assignee
DisputeConfirm(c) ==
    /\ Running(c)
    /\ job[c].op = "handleChoreDispute"
    /\ pc[c] = "idle"
    /\ job[c].pending = 1
    /\ job' = [job EXCEPT ![c].pending = 0, ![c].calls = Append(@, result[c])]
    /\ AdjustStart(c, job[c].chore.assignedTo, "chore_confirmed", NoFields, job[c].disputedBy)

\* the last call has returned: return { success: true }
DisputeReturn(c) ==
    /\ Running(c)
    /\ job[c].op = "handleChoreDispute"
    /\ pc[c] = "idle"
    /\ job[c].pending = 0
    /\ job' = [job EXCEPT ![c] =
                 [op |-> "handleChoreDispute", status |-> "returned", chore |-> job[c].chore,
                  disputedBy |-> job[c].disputedBy, isValidDispute |-> job[c].isValidDispute,
                  success |-> TRUE, calls |-> Append(job[c].calls, result[c])]]
    /\ UNCHANGED <<users, trustActions, now, pc, call, result, opsDone, auditWrite>>

DisputeNext ==
    \/ \E c \in Clients, chore \in Chores, by \in DisputeIds, v \in BOOLEAN :
          /\ by # chore.assignedTo
          /\ DisputeStart(c, chore, by, v)
          /\ UNCHANGED <<policyVars, sideVars>>
    \/ \E c \in Clients : DisputeConfirm(c) /\ UNCHANGED <<policyVars, sideVars>>
    \/ \E c \in Clients : DisputeReturn(c) /\ UNCHANGED <<policyVars, sideVars>>
    \/ \E c \in Clients : TxBody(c) /\ UNCHANGED <<policyVars, job, sideVars>>
    \/ \E c \in Clients : TxCommit(c) /\ UNCHANGED <<policyVars, job, sideVars>>
    \/ \E c \in Clients : TxRetry(c) /\ UNCHANGED <<policyVars, job, sideVars>>
    \/ \E c \in Clients : TxGiveUp(c) /\ UNCHANGED <<policyVars, job, sideVars>>
    \/ \E c \in Clients : TxUnavailable(c) /\ UNCHANGED <<policyVars, job, sideVars>>

SpecDispute == DisputeInit /\ [][DisputeNext]_vars


(***************************************************************************)
(* calculateWeeklyTrustBonus                                               *)
(*                                                                         *)
(* Dates are days; day 0 is a Sunday.  The loop awaits each                *)
(* adjustTrustScore call, does not look at what it returns, and counts it. *)
(***************************************************************************)
\* new Date() of the run
Today == 10

WEEK_DAYS == 7

\* weekStart: today minus getDay(), at midnight
WeekStart(today) == today - (today % WEEK_DAYS)

\* the least number of chores of the week that earns the bonus
MIN_WEEKLY_CHORES == 3

\* chores of member u due in the week of Today in room1: total of them, the
\* first done of them completed or confirmed in turn, the others pending
MemberChores(u, total, done) ==
    [i \in 1..total |->
        [roomId |-> RoomId, assignedTo |-> u,
         status |-> IF i > done THEN "pending"
                    ELSE IF i % 2 = 1 THEN "completed" ELSE "confirmed",
         dueDate |-> WeekStart(Today) + (i % WEEK_DAYS)]]

\* two chores of u2 due in the week in room1, and completed chores of u2 due
\* the day before the week, the day after it, and in the week in another room
OtherChores ==
    MemberChores("u2", 2, 2) \o
    << [roomId |-> RoomId, assignedTo |-> "u2", status |-> "completed",
        dueDate |-> WeekStart(Today) - 1],
       [roomId |-> RoomId, assignedTo |-> "u2", status |-> "completed",
        dueDate |-> WeekStart(Today) + WEEK_DAYS],
       [roomId |-> "room2", assignedTo |-> "u2", status |-> "completed",
        dueDate |-> WeekStart(Today)] >>

\* <<total, done>> of the week's chores of u1, and of u3, who has no user document
SweepLoadsU1 == { <<3, 3>>, <<3, 2>>, <<10, 9>>, <<10, 8>> }
SweepLoadsU3 == { <<0, 0>>, <<3, 3>> }

SweepScores == {0, 100, 148}

SweepInit ==
    /\ chores \in { MemberChores("u1", a[1], a[2]) \o OtherChores
                       \o MemberChores("u3", b[1], b[2]) :
                     a \in SweepLoadsU1, b \in SweepLoadsU3 }
    /\ users \in { [u \in {"u1", "u2"} |->
                        UserDoc(u, IF u = "u1" THEN s ELSE INITIAL_SCORE)] :
                     s \in SweepScores }
    /\ trustActions = << >>
    /\ now = 0
    /\ pc = [c \in Clients |-> "idle"]
    /\ call = [c \in Clients |-> NoCall]
    /\ result = [c \in Clients |-> NoResult]
    /\ opsDone = 0
    /\ auditWrite = << >>
    /\ job = [c \in Clients |-> NoJob]
    /\ auth = AuthMounted
    /\ PaymentsIdle
    /\ PolicyIdle

\* getDocuments('chores', [roomId ==, dueDate >= weekStart, dueDate < weekEnd])
WeeklyChores(coll, roomId, today) ==
    LET InWeek(ch) ==
            /\ ch.roomId = roomId
            /\ ch.dueDate >= WeekStart(today)
            /\ ch.dueDate < WeekStart(today) + WEEK_DAYS
    IN SelectSeq(coll, InWeek)

\* choresByUser[userId]
ChoresByUser(data, userId) ==
    LET Mine(ch) == ch.assignedTo = userId IN SelectSeq(data, Mine)

\* completionRate >= 0.9 && userChores.length >= 3; the quotient of two
\* lengths compares with 0.9 as the exact ratio does
EarnsBonus(userChores) ==
    LET Done(ch) == ch.status = "completed" \/ ch.status = "confirmed"
    IN /\ 10 * Len(SelectSeq(userChores, Done)) >= 9 * Len(userChores)
       /\ Len(userChores) >= MIN_WEEKLY_CHORES

\* Object.entries(choresByUser) reduced to the users the loop calls
\* adjustTrustScore for: the keys in the order they were first inserted
RECURSIVE BonusQueue(_, _, _)
BonusQueue(data, i, seen) ==
    IF i > Len(data) THEN << >>
    ELSE LET u == data[i].assignedTo IN
         IF u \in seen THEN BonusQueue(data, i + 1, seen)
         ELSE (IF EarnsBonus(ChoresByUser(data, u)) THEN << u >> ELSE << >>)
              \o BonusQueue(data, i + 1, seen \cup {u})

SweepFailureAsEmpty(roomId, error) ==
    [op |-> "calculateWeeklyTrustBonus", status |-> "returned", roomId |-> roomId,
     success |-> TRUE, bonusesApplied |-> 0, calls |-> << >>]

\* return { success: false, error: weeklyChores.error }
SweepFailure(roomId, error) ==
    [op |-> "calculateWeeklyTrustBonus", status |-> "returned", roomId |-> roomId,
     success |-> FALSE, error |-> error, calls |-> << >>]

\* the query of the week's chores succeeds; the loop is entered
SweepStart(c, roomId) ==
    /\ ~Running(c)
    /\ pc[c] = "idle"
    /\ LET queue == BonusQueue(WeeklyChores(chores, roomId, Today), 1, {}) IN
       /\ opsDone + PendingCalls(Clients) + Len(queue) <= MaxOps
       /\ job' = [job EXCEPT ![c] =
                    [op |-> "calculateWeeklyTrustBonus", status |-> "running",
                     roomId |-> roomId, queue |-> queue, pending |-> Len(queue),
                     awaiting |-> FALSE, bonusesApplied |-> 0, calls |-> << >>]]
    /\ UNCHANGED <<users, trustActions, now, pc, call, result, opsDone, auditWrite, chores>>

\* the query fails: getDocuments returns { data: [], error }
SweepStartError(c, roomId) ==
    /\ ~Running(c)
    /\ pc[c] = "idle"
    /\ job' = [job EXCEPT ![c] =
                 With(SweepFailure(roomId, "unavailable"), "queryFailed", TRUE)]
    /\ UNCHANGED <<users, trustActions, now, pc, call, result, opsDone, auditWrite, chores>>

\* what the adjustTrustScore calls of the loop have returned so far
SweepAwaited(c) ==
    IF job[c].awaiting THEN Append(job[c].calls, result[c]) ELSE job[c].calls

\* bonusesApplied++ after the call that was awaited, if there was one
SweepCounted(c) ==
    IF job[c].awaiting THEN job[c].bonusesApplied + 1 ELSE job[c].bonusesApplied

\* the next user of the loop: await adjustTrustScore(userId, roomId,
\* 'helpful_action', ..., undefined, 'system')
SweepApply(c) ==
    /\ Running(c)
    /\ job[c].op = "calculateWeeklyTrustBonus"
    /\ pc[c] = "idle"
    /\ job[c].queue # << >>
    /\ job' = [job EXCEPT ![c].queue = Tail(@), ![c].pending = @ - 1,
                          ![c].awaiting = TRUE,
                          ![c].bonusesApplied = SweepCounted(c),
                          ![c].calls = SweepAwaited(c)]
    /\ AdjustStart(c, Head(job[c].queue), "helpful_action", NoFields, "system")
    /\ UNCHANGED chores

\* the loop is over: return { success: true, bonusesApplied }
SweepReturn(c) ==
    /\ Running(c)
    /\ job[c].op = "calculateWeeklyTrustBonus"
    /\ pc[c] = "idle"
    /\ job[c].queue = << >>
    /\ job' = [job EXCEPT ![c] =
                 [op |-> "calculateWeeklyTrustBonus", status |-> "returned",
                  roomId |-> job[c].roomId, success |-> TRUE,
                  bonusesApplied |-> SweepCounted(c),
                  calls |-> SweepAwaited(c)]]
    /\ UNCHANGED <<users, trustActions, now, pc, call, result, opsDone, auditWrite, chores>>

SweepNext ==
    \/ \E c \in Clients : SweepStart(c, RoomId) /\ UNCHANGED <<policyVars, auth, payVars>>
    \/ \E c \in Clients : SweepStartError(c, RoomId) /\ UNCHANGED <<policyVars, auth, payVars>>
    \/ \E c \in Clients : SweepApply(c) /\ UNCHANGED <<policyVars, auth, payVars>>
    \/ \E c \in Clients : SweepReturn(c) /\ UNCHANGED <<policyVars, auth, payVars>>
    \/ \E c \in Clients : TxBody(c) /\ UNCHANGED <<policyVars, job, sideVars>>
    \/ \E c \in Clients : TxCommit(c) /\ UNCHANGED <<policyVars, job, sideVars>>
    \/ \E c \in Clients : TxRetry(c) /\ UNCHANGED <<policyVars, job, sideVars>>
    \/ \E c \in Clients : TxGiveUp(c) /\ UNCHANGED <<policyVars, job, sideVars>>
    \/ \E c \in Clients : TxUnavailable(c) /\ UNCHANGED <<policyVars, job, sideVars>>

SpecSweep == SweepInit /\ [][SweepNext]_vars


(***************************************************************************)
(* handleChoreCompletion                                                   *)
(***************************************************************************)
TRAILING_DAYS == 30

\* n chores assigned to u in the room, completed on the days before Today,
\* recurring in turn
CompletedChores(u, roomId, n) ==
    [i \in 1..n |->
        [roomId |-> roomId, assignedTo |-> u, status |-> "completed",
         recurring |-> (i % 2 = 0), completedAt |-> Today - i]]

\* a chore of u completed the day before the trailing 30 days begin, and two
\* chores of u that are being completed now
EdgeChores(u) ==
    << [roomId |-> RoomId, assignedTo |-> u, status |-> "completed",
        recurring |-> FALSE, completedAt |-> Today - TRAILING_DAYS - 1],
       [roomId |-> RoomId, assignedTo |-> u, status |-> "pending", recurring |-> TRUE],
       [roomId |-> RoomId, assignedTo |-> u, status |-> "pending", recurring |-> FALSE] >>

\* how many recent completed chores the user has in room1 and in room2
RecentInRoom == {4, 5}
RecentElsewhere == {0, 2}

CompletionScores == {100}

CompletionInit ==
    /\ chores \in { CompletedChores("u1", RoomId, a) \o CompletedChores("u1", "room2", b)
                       \o EdgeChores("u1") \o CompletedChores("u2", RoomId, 1) :
                     a \in RecentInRoom, b \in RecentElsewhere }
    /\ users \in { [u \in {"u1"} |-> UserDoc(u, sc)] : sc \in CompletionScores }
    /\ trustActions = << >>
    /\ now = 0
    /\ pc = [c \in Clients |-> "idle"]
    /\ call = [c \in Clients |-> NoCall]
    /\ result = [c \in Clients |-> NoResult]
    /\ opsDone = 0
    /\ auditWrite = << >>
    /\ job = [c \in Clients |-> NoJob]
    /\ auth = AuthMounted
    /\ PaymentsIdle
    /\ PolicyIdle

\* getDocuments('chores', [assignedTo == completedBy, status == 'completed',
\*              completedAt >= now - 30 days], 'completedAt', 'desc').data
RecentChores(coll, completedBy, today) ==
    LET Recent(ch) ==
            /\ ch.assignedTo = completedBy
            /\ ch.status = "completed"
            /\ Has(ch, "completedAt")
            /\ ch.completedAt >= today - TRAILING_DAYS
    IN SelectSeq(coll, Recent)

\* the chore document at position i, as the caller holds it
ChoreAt(i) == With(chores[i], "id", i)

\* each client completes one chore: handleChoreCompletion is called and, with the consecutiveCount it read
\* (0 when the query failed), enters adjustTrustScore
CompletionStart(c, chore, completedBy, queryFailed) ==
    /\ ~Running(c)
    /\ opsDone + PendingCalls(Clients) + 1 <= MaxOps
    /\ LET consecutiveCount ==
               IF queryFailed THEN 0
               ELSE Len(RecentChores(chores, completedBy, Today))
           context == [isRecurring |-> chore.recurring,
                       consecutiveCount |-> consecutiveCount]
       IN /\ job' = [job EXCEPT ![c] =
                       [op |-> "handleChoreCompletion", status |-> "running",
                        chore |-> chore, completedBy |-> completedBy, pending |-> 0,
                        queryFailed |-> queryFailed,
                        passed |-> [userId |-> completedBy, roomId |-> chore.roomId,
                                    actionType |-> "chore_completed",
                                    relatedId |-> chore.id, createdBy |-> completedBy,
                                    context |-> context]]]
          /\ AdjustStart(c, completedBy, "chore_completed", context, completedBy)
    /\ UNCHANGED chores

\* return { success: result.success, error: result.error }
CompletionReturn(c) ==
    /\ Running(c)
    /\ job[c].op = "handleChoreCompletion"
    /\ pc[c] = "idle"
    /\ job' = [job EXCEPT ![c] =
                 [op |-> "handleChoreCompletion", status |-> "returned",
                  success |-> result[c].success]]
    /\ UNCHANGED <<users, trustActions, now, pc, call, result, opsDone, auditWrite, chores>>

CompletionNext ==
    \/ \E c \in Clients, i \in DOMAIN chores, f \in BOOLEAN :
          /\ chores[i].status = "pending"
          /\ CompletionStart(c, ChoreAt(i), chores[i].assignedTo, f)
          /\ UNCHANGED <<policyVars, auth, payVars>>
    \/ \E c \in Clients : CompletionReturn(c) /\ UNCHANGED <<policyVars, auth, payVars>>
    \/ \E c \in Clients : TxBody(c) /\ UNCHANGED <<policyVars, job, sideVars>>
    \/ \E c \in Clients : TxCommit(c) /\ UNCHANGED <<policyVars, job, sideVars>>
    \/ \E c \in Clients : TxRetry(c) /\ UNCHANGED <<policyVars, job, sideVars>>
    \/ \E c \in Clients : TxGiveUp(c) /\ UNCHANGED <<policyVars, job, sideVars>>
    \/ \E c \in Clients : TxUnavailable(c) /\ UNCHANGED <<policyVars, job, sideVars>>

SpecCompletion == CompletionInit /\ [][CompletionNext]_vars


(***************************************************************************)
(* AuthProvider                                                            *)
(*                                                                         *)
(* auth.current is the account the Firebase Auth SDK holds; firebaseUser,  *)
(* user and loading are the component's state.  A fetchUserData call in    *)
(* flight is a task: the call of the listener or of refreshUser goes on    *)
(* (setUser) in the step in which its fetchUserData resolves.  The effect  *)
(* that subscribes to the user document throws before it subscribes        *)
(* (it reads .then of a destructured import), so no snapshot callback      *)
(* sets the user.                                                          *)
(***************************************************************************)
\* the accounts that sign in
Uids == {"u1", "u2"}

\* the ids addDoc gives the user documents it creates, in turn
AutoIds == << "auto1", "auto2", "auto3", "auto4", "auto5", "auto6" >>

\* newUser as stored: trustScore INITIAL_SCORE, one trustScoreHistory entry,
\* and the id field set to the uid; the other fields are left out
NewUserDoc(uid) ==
    [id |-> uid, trustScore |-> INITIAL_SCORE, version |-> 0, updatedAt |-> 0,
     trustScoreHistory |-> << [score |-> INITIAL_SCORE, change |-> 0,
                               reason |-> "Account created"] >>]

AuthInit ==
    /\ users = [u \in {} |-> NoFields]
    /\ trustActions = << >>
    /\ now = 0
    /\ pc = [c \in Clients |-> "idle"]
    /\ call = [c \in Clients |-> NoCall]
    /\ result = [c \in Clients |-> NoResult]
    /\ opsDone = 0
    /\ auditWrite = << >>
    /\ job = [c \in Clients |-> NoJob]
    /\ chores = << >>
    /\ auth = AuthMounted
    /\ PaymentsIdle
    /\ PolicyIdle

\* a call of fetchUserData(firebaseUser) begins: getDocument is awaited
FetchTask(kind, uid) ==
    [kind |-> kind, uid |-> uid, stage |-> "get", n |-> auth.started + 1]

\* the listener is called with an account: setFirebaseUser, then fetchUserData
AuthSignedIn(uid) ==
    /\ auth.current # uid
    /\ auth.started < MaxFetches
    /\ auth' = [auth EXCEPT !.current = uid, !.firebaseUser = uid,
                            !.tasks = @ \cup {FetchTask("listener", uid)},
                            !.started = @ + 1]
    /\ UNCHANGED users

\* the listener is called with null, at the start or after a sign-out:
\* setFirebaseUser(null), setUser(null), setLoading(false); signOut() ends the
\* same way (after the listener it sets both to null again)
AuthSignedOut ==
    /\ auth.current # "none" \/ auth.loading
    /\ auth' = [auth EXCEPT !.current = "none", !.firebaseUser = "none",
                            !.user = NoFields, !.loading = FALSE]
    /\ UNCHANGED users

\* refreshUser while firebaseUser is set
RefreshUser ==
    /\ auth.firebaseUser # "none"
    /\ auth.started < MaxFetches
    /\ auth' = [auth EXCEPT !.tasks = @ \cup {FetchTask("refresh", auth.firebaseUser)},
                            !.started = @ + 1]
    /\ UNCHANGED users

\* fetchUserData of task t returns userData: setUser(userData), and the
\* listener goes on to setLoading(false)
FetchResolved(t, userData) ==
    [auth EXCEPT !.tasks = @ \ {t}, !.user = userData,
                 !.loading = IF t.kind = "listener" THEN FALSE ELSE @]

\* getDocument('users', uid) returns: the document, or no data (not found)
FetchGet(t) ==
    /\ t \in auth.tasks
    /\ t.stage = "get"
    /\ IF t.uid \in DOMAIN users
       THEN auth' = FetchResolved(t, With(users[t.uid], "id", t.uid))
       ELSE auth' = [auth EXCEPT !.tasks = (@ \ {t}) \cup {[t EXCEPT !.stage = "create"]}]
    /\ UNCHANGED users

\* the document number of the next addDoc on users
NextAutoId == AutoIds[Cardinality(DOMAIN users) + 1]

\* createDocument('users', { ...newUser, id: uid }) succeeds
FetchCreate(t) ==
    /\ t \in auth.tasks
    /\ t.stage = "create"
    /\ users' = [d \in DOMAIN users \cup {NextAutoId} |->
                   IF d \in DOMAIN users THEN users[d] ELSE NewUserDoc(t.uid)]
    /\ auth' = [FetchResolved(t, NewUserDoc(t.uid)) EXCEPT !.firstAuth = @ \cup {t.uid}]

\* createDocument returns { id: null, error }: fetchUserData returns null
FetchCreateError(t) ==
    /\ t \in auth.tasks
    /\ t.stage = "create"
    /\ auth' = FetchResolved(t, NoFields)
    /\ UNCHANGED users

authFrame == <<trustActions, now, pc, call, result, opsDone, auditWrite, job, chores,
               payVars, arg, out>>

AuthNext ==
    \/ \E uid \in Uids : AuthSignedIn(uid) /\ UNCHANGED authFrame
    \/ AuthSignedOut /\ UNCHANGED authFrame
    \/ RefreshUser /\ UNCHANGED authFrame
    \/ \E t \in auth.tasks : FetchGet(t) /\ UNCHANGED authFrame
    \/ \E t \in auth.tasks : FetchCreate(t) /\ UNCHANGED authFrame
    \/ \E t \in auth.tasks : FetchCreateError(t) /\ UNCHANGED authFrame

SpecAuth == AuthInit /\ [][AuthNext]_vars

(***************************************************************************)
(* processPayment: the payment record, the branch on the method, the       *)
(* store updates.  createDocument and updateDocument return { error } and  *)
(* never throw, and initiateMpesaPayment catches what it throws, so the    *)
(* catch blocks of processPayment, processStripePayment and                *)
(* processPayPalPayment are never entered.                                 *)
(***************************************************************************)
PaymentMethod == {"mpesa", "bank_transfer", "cash", "card", "paypal"}

\* the methods callers pass: the PaymentMethod values and one that is none of them
PaymentMethodArgs == PaymentMethod \cup {"unrecognized"}

\* the paymentData objects callers pass
PaymentDataArgs ==
    {NoFields, [phoneNumber |-> ""], [phoneNumber |-> "0712345678"],
     [transactionId |-> "TX1"]}

PaymentAmounts == {100}

PaymentInit ==
    /\ users = [u \in {"u1"} |-> UserDoc("u1", INITIAL_SCORE)]
    /\ trustActions = << >>
    /\ now = 0
    /\ pc = [c \in Clients |-> "idle"]
    /\ call = [c \in Clients |-> NoCall]
    /\ result = [c \in Clients |-> NoResult]
    /\ opsDone = 0
    /\ auditWrite = << >>
    /\ job = [c \in Clients |-> NoJob]
    /\ chores = << >>
    /\ auth = AuthMounted
    /\ PaymentsIdle
    /\ PolicyIdle

\* !paymentData.phoneNumber
NoPhoneNumber(paymentData) ==
    ~Has(paymentData, "phoneNumber") \/ paymentData.phoneNumber = ""

\* { transactionId: paymentData.transactionId || `BANK_${Date.now()}` }
TransactionIdOf(paymentData) ==
    IF Has(paymentData, "transactionId") /\ paymentData.transactionId # ""
    THEN [transactionId |-> paymentData.transactionId]
    ELSE [transactionId |-> "BANK"]

\* updateDoc(ref, { ...data }): the fields of data replace the document's
Updated(doc, data) ==
    [f \in DOMAIN doc \cup DOMAIN data |-> IF f \in DOMAIN data THEN data[f] ELSE doc[f]]

PaymentReturned(paymentId, res) ==
    [op |-> "processPayment", status |-> "returned", paymentId |-> paymentId, result |-> res]

PaymentAwaiting(paymentId, awaiting, data, after) ==
    [op |-> "processPayment", status |-> "running", paymentId |-> paymentId,
     awaiting |-> awaiting, data |-> data, after |-> after]

\* switch (method), up to its first await or its return
PaymentBranch(paymentId, method, paymentData) ==
    CASE method = "mpesa" ->
            IF NoPhoneNumber(paymentData)
            THEN PaymentReturned(paymentId,
                     [success |-> FALSE, error |-> "Phone number required for M-Pesa"])
            ELSE PaymentAwaiting(paymentId, "initiateMpesaPayment", NoFields, NoFields)
      [] method = "cash" ->
            PaymentAwaiting(paymentId, "updateDocument",
                            [status |-> "completed", transactionId |-> "CASH"],
                            [success |-> TRUE, paymentId |-> paymentId])
      [] method = "bank_transfer" ->
            PaymentAwaiting(paymentId, "updateDocument", TransactionIdOf(paymentData),
                            [success |-> TRUE, paymentId |-> paymentId])
      [] method = "card" ->
            PaymentAwaiting(paymentId, "updateDocument",
                            [status |-> "completed", transactionId |-> "stripe"],
                            [success |-> TRUE, paymentId |-> paymentId])
      [] method = "paypal" ->
            PaymentAwaiting(paymentId, "updateDocument",
                            [status |-> "completed", transactionId |-> "paypal"],
                            [success |-> TRUE, paymentId |-> paymentId])
      [] OTHER ->
            PaymentReturned(paymentId,
                [success |-> FALSE, error |-> "Unsupported payment method"])

\* processPayment: createDocument('payments', payment) succeeds, then the switch
ProcessPayment(billId, userId, amount, method, paymentData) ==
    /\ payJob.status # "running"
    /\ Len(payments) < MaxPayments
    /\ LET payment == [billId |-> billId, userId |-> userId, amount |-> amount,
                       method |-> method, status |-> "pending"]
       IN /\ payments' = createDocument(payments, payment, now)
          /\ payJob' = PaymentBranch(Len(payments) + 1, method, paymentData)

\* processPayment: if (paymentResult.error) return { success: false, error }
ProcessPaymentCreateError(billId, userId, amount, method, paymentData) ==
    /\ payJob.status # "running"
    /\ Len(payments) < MaxPayments
    /\ payJob' = PaymentReturned(0, [success |-> FALSE, error |-> "create failed"])
    /\ UNCHANGED payments

\* initiateMpesaPayment resolves with success: true; the record gets the
\* checkoutRequestId as its transactionId and keeps status 'pending'
MpesaInitiated ==
    /\ payJob.status = "running"
    /\ payJob.awaiting = "initiateMpesaPayment"
    /\ payJob' = PaymentAwaiting(payJob.paymentId, "updateDocument",
                     [transactionId |-> "ws_CO", status |-> "pending"],
                     [success |-> TRUE, paymentId |-> payJob.paymentId,
                      checkoutRequestId |-> "ws_CO"])
    /\ UNCHANGED payments

\* initiateMpesaPayment resolves with success: false; the record is to be marked failed
MpesaInitiationFailed ==
    /\ payJob.status = "running"
    /\ payJob.awaiting = "initiateMpesaPayment"
    /\ payJob' = PaymentAwaiting(payJob.paymentId, "updateDocument",
                     [status |-> "failed"],
                     [success |-> FALSE, error |-> "M-Pesa payment initiation failed"])
    /\ UNCHANGED payments

\* the awaited updateDocument('payments', paymentId, data) writes; the handler returns
PaymentUpdated ==
    /\ payJob.status = "running"
    /\ payJob.awaiting = "updateDocument"
    /\ payments' = [payments EXCEPT ![payJob.paymentId] = Updated(@, payJob.data)]
    /\ payJob' = PaymentReturned(payJob.paymentId, payJob.after)

\* the awaited updateDocument returns { error }; no caller reads it, the handler returns
PaymentUpdateError ==
    /\ payJob.status = "running"
    /\ payJob.awaiting = "updateDocument"
    /\ payJob' = PaymentReturned(payJob.paymentId, payJob.after)
    /\ UNCHANGED payments

paymentFrame == <<users, trustActions, now, pc, call, result, opsDone, auditWrite, job,
                  chores, auth, arg, out>>

PaymentNext ==
    \/ \E amount \in PaymentAmounts, method \in PaymentMethodArgs,
          paymentData \in PaymentDataArgs :
          /\ ProcessPayment("b1", "u1", amount, method, paymentData)
          /\ UNCHANGED paymentFrame
    \/ \E amount \in PaymentAmounts, method \in PaymentMethodArgs,
          paymentData \in PaymentDataArgs :
          /\ ProcessPaymentCreateError("b1", "u1", amount, method, paymentData)
          /\ UNCHANGED paymentFrame
    \/ MpesaInitiated /\ UNCHANGED paymentFrame
    \/ MpesaInitiationFailed /\ UNCHANGED paymentFrame
    \/ PaymentUpdated /\ UNCHANGED paymentFrame
    \/ PaymentUpdateError /\ UNCHANGED paymentFrame

SpecPayment == PaymentInit /\ [][PaymentNext]_vars


(***************************************************************************)
(* The Score Policy and the Permission Gate on every score.                *)
(***************************************************************************)
StoreIdle ==
    /\ users = [u \in {"u1"} |-> UserDoc("u1", INITIAL_SCORE)]
    /\ trustActions = << >>
    /\ now = 0
    /\ pc = [c \in Clients |-> "idle"]
    /\ call = [c \in Clients |-> NoCall]
    /\ result = [c \in Clients |-> NoResult]
    /\ opsDone = 0
    /\ auditWrite = << >>
    /\ job = [c \in Clients |-> NoJob]
    /\ SideIdle

PolicyInit ==
    /\ StoreIdle
    /\ arg \in MIN_SCORE..MAX_SCORE
    /\ out = [fn |-> "none"]

GetTrustLevel ==
    /\ out.fn = "none"
    /\ out' = [fn |-> "getTrustLevel", level |-> getTrustLevel(arg)]
    /\ UNCHANGED arg

\* the actions canPerformAction is asked about
Capabilities ==
    {"create_chore", "dispute_chore", "manage_bills", "invite_members", "delete_items"}

CanPerformAction(action) ==
    /\ out.fn = "none"
    /\ out' = [fn |-> "canPerformAction", action |-> action,
               allowed |-> canPerformAction(arg, action)]
    /\ UNCHANGED arg

GetTrustRestrictions ==
    /\ out.fn = "none"
    /\ out' = [fn |-> "getTrustRestrictions", restrictions |-> getTrustRestrictions(arg)]
    /\ UNCHANGED arg

PolicyNext ==
    \/ GetTrustLevel /\ UNCHANGED storeVars
    \/ \E a \in Capabilities : CanPerformAction(a) /\ UNCHANGED storeVars
    \/ GetTrustRestrictions /\ UNCHANGED storeVars

SpecPolicy == PolicyInit /\ [][PolicyNext]_vars

(***************************************************************************)
(* calculateTrustChange on every action type and context.                  *)
(***************************************************************************)
\* the action types callers pass: the TrustActionType values and one that is none of them
ActionTypeArgs == TrustActionType \cup {"unrecognized"}

ContextFields == {"isRecurring", "consecutiveCount", "wasOnTime"}

\* the context objects callers pass; the one with no fields is also the absent context
Contexts ==
    { [f \in fs |-> CASE f = "isRecurring" -> r
                     [] f = "consecutiveCount" -> n
                     [] f = "wasOnTime" -> w] :
        fs \in SUBSET ContextFields, r \in BOOLEAN, n \in 0..MaxCount, w \in BOOLEAN }

ChangeInit ==
    /\ StoreIdle
    /\ arg \in [actionType : ActionTypeArgs, context : Contexts]
    /\ out = [fn |-> "none"]

CalculateTrustChange ==
    /\ out.fn = "none"
    /\ out' = [fn |-> "calculateTrustChange",
               points |-> calculateTrustChange(arg.actionType, arg.context)]
    /\ UNCHANGED arg

ChangeNext ==
    \/ CalculateTrustChange /\ UNCHANGED storeVars

SpecChange == ChangeInit /\ [][ChangeNext]_vars

(***************************************************************************)
(* calculateBillSplits, 'equal' branch.  Amounts are counted in cents and  *)
(* percentages in hundredths of a percent: the field x / 100 of the code   *)
(* is held as the integer x.                                               *)
(***************************************************************************)
\* Math.round(num / den) for num >= 0, den > 0, on the exact quotient: halves round up
MathRoundRatio(num, den) == (2 * num + den) \div (2 * den)

\* the <<total in cents, members>> pairs, among totals up to 1.30 and 100.00 and up
\* to 6 members, whose exact quotient ends in a half while the double
\* totalAmount / members.length * 100 lies just below it: Math.round rounds these down
HalfRoundsDown ==
    {<<21, 6>>, <<29, 2>>, <<57, 2>>, <<57, 6>>, <<58, 4>>, <<87, 6>>, <<113, 2>>,
     <<114, 4>>, <<115, 2>>, <<117, 6>>}

\* Math.round(equalAmount * 100), equalAmount = totalAmount / members.length
EqualAmountCents(totalCents, n) ==
    IF <<totalCents, n>> \in HalfRoundsDown
    THEN MathRoundRatio(totalCents, n) - 1
    ELSE MathRoundRatio(totalCents, n)

PERCENT_HUNDREDTHS == 10000

\* Math.round(equalPercentage * 100), equalPercentage = 100 / members.length
EqualPercentageHundredths(n) == MathRoundRatio(PERCENT_HUNDREDTHS, n)

\* calculateBillSplits(totalAmount, 'equal', members)
calculateBillSplits(totalCents, members) ==
    [i \in 1..Len(members) |->
        [userId |-> members[i].userId,
         amount |-> EqualAmountCents(totalCents, Len(members)),
         percentage |-> EqualPercentageHundredths(Len(members))]]

SplitTotals == 0..MaxTotalCents \cup {10000}

\* the member lists callers pass: n >= 1 members
SplitMembers == { [i \in 1..n |-> [userId |-> i]] : n \in 1..MaxMembers }

SplitInit ==
    /\ StoreIdle
    /\ arg \in [totalAmount : SplitTotals, members : SplitMembers]
    /\ out = [fn |-> "none"]

CalculateBillSplits ==
    /\ out.fn = "none"
    /\ out' = [fn |-> "calculateBillSplits",
               splits |-> calculateBillSplits(arg.totalAmount, arg.members)]
    /\ UNCHANGED arg

SplitNext ==
    \/ CalculateBillSplits /\ UNCHANGED storeVars

SpecSplit == SplitInit /\ [][SplitNext]_vars

(***************************************************************************)
(* getTrustHistory over getDocuments.                                      *)
(***************************************************************************)
\* limit: number = 50
DEFAULT_LIMIT == 50

\* the users whose history is read
HistoryUsers == {"u1", "u2"}

\* a record that resetTrustScore(userId, roomId, 100, reason, "c2") left, with
\* the createdAt the store stamped on it
HistoryRecord(userId, t) == Stamped(ResetRecord(userId, INITIAL_SCORE, "c2"), t)

\* the collections the history is read from: every log of up to MaxLog records,
\* and one log longer than the default limit
HistoryLogs ==
    UNION { [1..n -> {HistoryRecord(u, t) : u \in HistoryUsers, t \in 1..MaxLog}] :
              n \in 0..MaxLog }
    \cup { [i \in 1..(DEFAULT_LIMIT + 1) |-> HistoryRecord("u1", i)] }

\* getTrustHistory(userId) and getTrustHistory(userId, limit)
HistoryArgs ==
    { [userId |-> u] : u \in HistoryUsers }
    \cup { [userId |-> u, limit |-> n] : u \in HistoryUsers, n \in 0..MaxLimit }

HistoryInit ==
    /\ trustActions \in HistoryLogs
    /\ users = [u \in HistoryUsers |->
                  [id |-> u, trustScore |-> INITIAL_SCORE,
                   version |-> Cardinality({i \in DOMAIN trustActions :
                                              trustActions[i].userId = u}),
                   updatedAt |-> 0]]
    /\ auditWrite = [i \in DOMAIN trustActions |->
                       Cardinality({j \in 1..i :
                                      trustActions[j].userId = trustActions[i].userId})]
    /\ now = DEFAULT_LIMIT + 1
    /\ pc = [c \in Clients |-> "idle"]
    /\ call = [c \in Clients |-> NoCall]
    /\ result = [c \in Clients |-> NoResult]
    /\ opsDone = 0
    /\ job = [c \in Clients |-> NoJob]
    /\ SideIdle
    /\ arg \in HistoryArgs
    /\ out = [fn |-> "none"]

\* where('userId', '==', value): the documents of coll that match, by position
Where(coll, value) == {i \in DOMAIN coll : coll[i].userId = value}

\* orderBy('createdAt', 'desc') over the documents at the positions S, each
\* returned as { id: doc.id, ...doc.data() }; documents with equal createdAt
\* come in the order of their ids, which addDoc draws at random, so any one
\* order of them
RECURSIVE OrderByCreatedAtDesc(_, _)
OrderByCreatedAtDesc(coll, S) ==
    IF S = {} THEN << >>
    ELSE LET i == CHOOSE i \in S : \A j \in S : coll[i].createdAt >= coll[j].createdAt
         IN << With(coll[i], "id", i) >> \o OrderByCreatedAtDesc(coll, S \ {i})

\* limit(n)
Limit(docs, n) == SubSeq(docs, 1, Min(n, Len(docs)))

\* getDocuments(collectionName, [{ field: 'userId', operator: '==', value }],
\*              'createdAt', 'desc', limitCount) when getDocs succeeds
getDocuments(coll, value, limitCount) ==
    LET q == OrderByCreatedAtDesc(coll, Where(coll, value))
    IN IF limitCount # 0 THEN Limit(q, limitCount) ELSE q

\* the limit parameter with its default
HistoryLimit(a) == IF Has(a, "limit") THEN a.limit ELSE DEFAULT_LIMIT

GetTrustHistory ==
    /\ out.fn = "none"
    /\ out' = [fn |-> "getTrustHistory",
               actions |-> getDocuments(trustActions, arg.userId, HistoryLimit(arg))]
    /\ UNCHANGED arg

\* getDocs rejects: getDocuments returns { data: [], error }
GetTrustHistoryError ==
    /\ out.fn = "none"
    /\ out' = [fn |-> "getTrustHistory", actions |-> << >>, error |-> "unavailable"]
    /\ UNCHANGED arg

HistoryNext ==
    \/ GetTrustHistory /\ UNCHANGED storeVars
    \/ GetTrustHistoryError /\ UNCHANGED storeVars

SpecHistory == HistoryInit /\ [][HistoryNext]_vars


(***************************************************************************)
(* Properties.                                                             *)
(***************************************************************************)
AdjustResult(c) == result[c].op = "adjustTrustScore"
ResetResult(c) == result[c].op = "resetTrustScore"
Quiescent == \A c \in Clients : pc[c] = "idle"

\* the trust action records of user u
RecordsOf(u) == {i \in DOMAIN trustActions : trustActions[i].userId = u}

\* the score a user document holds, INITIAL_SCORE when it has no trustScore field
StoredOrInitial(userData) ==
    IF Has(userData, "trustScore") THEN userData.trustScore ELSE INITIAL_SCORE

\* C1: whatever adjustTrustScore and resetTrustScore calls have run, in whatever
\* interleaving, every stored trustScore is an integer in [0, 150].
C1_ScoreInRange ==
    \A u \in DOMAIN users :
        Has(users[u], "trustScore") => users[u].trustScore \in 0..150

\* an adjustTrustScore whose sum fell below 0 has committed, a resetTrustScore
\* has written, and the score stands at a bound
C1_Witness ==
    \E c \in Clients, o \in Clients :
        /\ AdjustResult(c) /\ result[c].committed
        /\ StoredOrInitial(result[c].userData) + result[c].pointChange < 0
        /\ result[c].newScore = 0
        /\ ResetResult(o) /\ result[o].wrote
        /\ users[result[c].userId].trustScore \in {0, 150}

\* C2: a committed adjustTrustScore stores and returns max(0, min(150, s + d))
\* for the stored score s, 0 included; 100 stands in for s only when the
\* document has no trustScore field.
C2_ExactClamp ==
    \A c \in Clients :
        (AdjustResult(c) /\ result[c].committed) =>
            result[c].newScore =
                Max(0, Min(150, StoredOrInitial(result[c].userData) + result[c].pointChange))

\* C3: an adjustTrustScore that reports success has created exactly one record
\* of that user with points equal to the policy delta; one that does not
\* report success has created none.
C3_AuditPairing ==
    \A c \in Clients :
        AdjustResult(c) =>
            IF result[c].success
            THEN /\ result[c].records = 1
                 /\ trustActions[result[c].record].userId = result[c].userId
                 /\ trustActions[result[c].record].points = result[c].pointChange
            ELSE result[c].records = 0

\* C4: once every call has returned, the committed writes of a user's
\* trustScore are as many as that user's trust action records.
C4_WritesPaired ==
    Quiescent =>
        \A u \in DOMAIN users : users[u].version = Cardinality(RecordsOf(u))

\* C5: an adjustTrustScore whose transaction could not commit returns an error
\* outcome (success false, no newScore) and has written nothing.
C5_CommitFailureReported ==
    \A c \in Clients :
        (/\ AdjustResult(c)
         /\ ~result[c].committed
         /\ result[c].txError \in {"aborted", "unavailable"}) =>
            /\ ~result[c].success
            /\ ~Has(result[c], "newScore")
            /\ result[c].records = 0

\* C6: adjustTrustScore for a userId with no user document returns an error
\* outcome, never success, and has written nothing.
C6_MissingUserReported ==
    \A c \in Clients :
        (/\ AdjustResult(c)
         /\ result[c].userId \notin DOMAIN users) =>
            /\ ~result[c].success
            /\ result[c].records = 0

\* the two clients' calls were adjustTrustScore calls on u that overlapped, both
\* committed, and they are the only writes of u's trustScore
TwoConcurrentAdjusts(u) ==
    /\ Quiescent
    /\ users[u].version = 2
    /\ \A c \in Clients :
          AdjustResult(c) /\ result[c].committed /\ result[c].userId = u
    /\ \E c \in Clients : result[c].overlap

\* C7: after two concurrent adjustTrustScore calls on one user the stored score
\* is the result of applying the two deltas with clamping one after the other
\* in some order, and both records exist.
C7_SerialOutcome ==
    \A u \in DOMAIN users :
        TwoConcurrentAdjusts(u) =>
            LET first == CHOOSE c \in Clients : result[c].userData.version = 0
                s == StoredOrInitial(result[first].userData)
                a == result["c1"].pointChange
                b == result["c2"].pointChange
                Clamp(x) == Max(0, Min(150, x))
            IN /\ users[u].trustScore \in {Clamp(Clamp(s + a) + b), Clamp(Clamp(s + b) + a)}
               /\ Cardinality(RecordsOf(u)) = 2

\* C8: for one user, the records ordered by createdAt are in the order in
\* which the score writes they document were committed.
C8_OrderMatchesCommit ==
    \A i \in DOMAIN trustActions, j \in DOMAIN trustActions :
        (/\ trustActions[i].userId = trustActions[j].userId
         /\ auditWrite[i] < auditWrite[j]) =>
            trustActions[i].createdAt <= trustActions[j].createdAt

\* C9: the trust action records are append-only: every step leaves the records
\* that exist as they are and at most adds records after them.
C9_AppendOnly ==
    [][/\ Len(trustActions') >= Len(trustActions)
       /\ SubSeq(trustActions', 1, Len(trustActions)) = trustActions]_vars

\* a resetTrustScore record was added after an adjustTrustScore record
C9_Witness ==
    \E i \in DOMAIN trustActions, j \in DOMAIN trustActions :
        /\ i < j
        /\ trustActions[i].action # "manual_adjustment"
        /\ trustActions[j].action = "manual_adjustment"

TierRank(level) ==
    CASE level = "critical" -> 0
      [] level = "low" -> 1
      [] level = "medium" -> 2
      [] level = "high" -> 3

\* C10: getTrustLevel is critical below 30, low from 30 to 69, medium from 70
\* to 99 and high from 100 on, so the tier of a higher score is never lower.
C10_TierTable ==
    out.fn = "getTrustLevel" =>
        /\ out.level = (CASE arg < 30 -> "critical"
                          [] arg >= 30 /\ arg < 70 -> "low"
                          [] arg >= 70 /\ arg < 100 -> "medium"
                          [] arg >= 100 -> "high")
        /\ \A b \in arg..MAX_SCORE :
              TierRank(getTrustLevel(b)) >= TierRank(out.level)

\* getTrustLevel was applied to a boundary score
C10_Witness ==
    /\ out.fn = "getTrustLevel"
    /\ arg = 30
    /\ out.level = "low"

\* calculateTrustChange(arg.actionType, arg.context) has returned
ChangeReturned == out.fn = "calculateTrustChange"

\* C11: calculateTrustChange without context returns the base value of the
\* action: chore_completed 2, chore_confirmed 1, chore_disputed_valid -5,
\* chore_disputed_invalid -1, false_completion -10, bill_paid_late -2,
\* helpful_action 5, and 0 for manual_adjustment and for an unrecognized type.
C11_BaseValues ==
    (ChangeReturned /\ DOMAIN arg.context = {}) =>
        LET a == arg.actionType IN
        /\ a = "chore_completed" => out.points = 2
        /\ a = "chore_confirmed" => out.points = 1
        /\ a = "chore_disputed_valid" => out.points = -5
        /\ a = "chore_disputed_invalid" => out.points = -1
        /\ a = "false_completion" => out.points = -10
        /\ a = "bill_paid_late" => out.points = -2
        /\ a = "helpful_action" => out.points = 5
        /\ a = "manual_adjustment" => out.points = 0
        /\ a \notin TrustActionType => out.points = 0

\* calculateTrustChange returned 0 for an unrecognized type without context
C11_Witness ==
    /\ ChangeReturned
    /\ DOMAIN arg.context = {}
    /\ arg.actionType = "unrecognized"
    /\ out.points = 0

\* C12: for chore_completed, calculateTrustChange returns 2, plus 1 if
\* isRecurring is true, plus min(consecutiveCount - 4, 3) if consecutiveCount
\* is at least 5; the streak part is 0 at 4, 1 at 5, 3 at 8 and 3 at 20, and
\* the total is between 2 and 6.
C12_ChoreCompleted ==
    (ChangeReturned /\ arg.actionType = "chore_completed") =>
        LET ctx == arg.context
            recurring == IF Has(ctx, "isRecurring") /\ ctx.isRecurring THEN 1 ELSE 0
            streak == IF Has(ctx, "consecutiveCount") /\ ctx.consecutiveCount >= 5
                      THEN Min(ctx.consecutiveCount - 4, 3) ELSE 0
            count(n) == Has(ctx, "consecutiveCount") /\ ctx.consecutiveCount = n
        IN /\ out.points = 2 + recurring + streak
           /\ out.points \in 2..6
           /\ count(4) => out.points - 2 - recurring = 0
           /\ count(5) => out.points - 2 - recurring = 1
           /\ count(8) => out.points - 2 - recurring = 3
           /\ count(20) => out.points - 2 - recurring = 3

\* a recurring chore completed on a streak of 20 earned 6
C12_Witness ==
    /\ ChangeReturned
    /\ arg.actionType = "chore_completed"
    /\ Has(arg.context, "isRecurring") /\ arg.context.isRecurring
    /\ Has(arg.context, "consecutiveCount") /\ arg.context.consecutiveCount = 20
    /\ out.points = 6

\* C13: for bill_paid_on_time, calculateTrustChange returns -2 only when the
\* context says wasOnTime is false; when wasOnTime is true, and when no
\* context or no wasOnTime is supplied, it returns 3.
C13_OnTimeUnlessToldLate ==
    (ChangeReturned /\ arg.actionType = "bill_paid_on_time") =>
        out.points = IF Has(arg.context, "wasOnTime") /\ ~arg.context.wasOnTime
                     THEN -2 ELSE 3

\* C14: for every score in 0..150, canPerformAction and the capability
\* booleans of getTrustRestrictions allow create_chore iff the score is not
\* critical (30 or more), dispute_chore iff score >= 30, manage_bills iff
\* score >= 70, invite_members iff score >= 100, delete_items iff score >= 70.
C14_CapabilityTable ==
    /\ out.fn = "canPerformAction" =>
          out.allowed = (CASE out.action = "create_chore" -> ~(arg < 30)
                           [] out.action = "dispute_chore" -> arg >= 30
                           [] out.action = "manage_bills" -> arg >= 70
                           [] out.action = "invite_members" -> arg >= 100
                           [] out.action = "delete_items" -> arg >= 70)
    /\ out.fn = "getTrustRestrictions" =>
          /\ out.restrictions.canCreateChores = ~(arg < 30)
          /\ out.restrictions.canDisputeChores = (arg >= 30)
          /\ out.restrictions.canManageBills = (arg >= 70)
          /\ out.restrictions.canInviteMembers = (arg >= 100)
          /\ out.restrictions.canDeleteItems = (arg >= 70)

\* canPerformAction allowed manage_bills at the lowest medium score
C14_Witness ==
    /\ out.fn = "canPerformAction"
    /\ arg = 70
    /\ out.action = "manage_bills"
    /\ out.allowed

\* the tier of the thresholds 30, 70 and 100
TierOf(score) ==
    CASE score < 30 -> "critical"
      [] score >= 30 /\ score < 70 -> "low"
      [] score >= 70 /\ score < 100 -> "medium"
      [] score >= 100 -> "high"

\* C15: for every score in 0..150, getTrustRestrictions returns
\* requiresConfirmation true exactly for the critical and low tiers,
\* maxChoresPerWeek 2 for critical, 5 for low and no such field for medium and
\* high, and a message that is the same for all scores of a tier.
C15_TierRestrictions ==
    out.fn = "getTrustRestrictions" =>
        LET r == out.restrictions
            tier == TierOf(arg)
        IN /\ r.requiresConfirmation = (tier \in {"critical", "low"})
           /\ tier = "critical" => Has(r, "maxChoresPerWeek") /\ r.maxChoresPerWeek = 2
           /\ tier = "low" => Has(r, "maxChoresPerWeek") /\ r.maxChoresPerWeek = 5
           /\ tier \in {"medium", "high"} => ~Has(r, "maxChoresPerWeek")
           /\ Has(r, "message")
           /\ \A b \in MIN_SCORE..MAX_SCORE :
                 TierOf(b) = tier => getTrustRestrictions(b).message = r.message

\* getTrustRestrictions was applied to the highest low score
C15_Witness ==
    /\ out.fn = "getTrustRestrictions"
    /\ arg = 69
    /\ out.restrictions.requiresConfirmation
    /\ out.restrictions.maxChoresPerWeek = 5

\* C16: getTrustHistory(userId, limit) that found no error returns only records
\* of that user, most recent createdAt first, and never more than limit
\* records, for every limit >= 0 and the default 50; when the user has more
\* than limit records it returns the limit most recent ones.
C16_HistoryBounded ==
    (out.fn = "getTrustHistory" /\ ~Has(out, "error")) =>
        LET n == IF Has(arg, "limit") THEN arg.limit ELSE 50
            mine == {i \in DOMAIN trustActions : trustActions[i].userId = arg.userId}
            got == {out.actions[k].id : k \in DOMAIN out.actions}
        IN /\ \A k \in DOMAIN out.actions :
                 /\ out.actions[k].id \in mine
                 /\ out.actions[k].userId = arg.userId
                 /\ out.actions[k].createdAt = trustActions[out.actions[k].id].createdAt
           /\ \A k \in DOMAIN out.actions, l \in DOMAIN out.actions :
                 k < l => out.actions[k].createdAt >= out.actions[l].createdAt
           /\ Cardinality(got) = Len(out.actions)
           /\ Len(out.actions) <= n
           /\ Cardinality(mine) > n =>
                 /\ Len(out.actions) = n
                 /\ \A i \in got, j \in mine \ got :
                       trustActions[i].createdAt >= trustActions[j].createdAt

\* C17: a resetTrustScore(userId, roomId, newScore, reason, resetBy) that
\* reports success has set the stored score to clamp(newScore, 0, 150),
\* whatever it was before and however far out of range newScore is, and has
\* appended one record with action manual_adjustment, createdBy = resetBy and
\* points = clamp(newScore) - 100.
C17_ResetOutcome ==
    LET Clamp(x) == Max(0, Min(150, x)) IN
    \A c \in Clients :
        /\ (call[c].op = "resetTrustScore"
             /\ users[call[c].userId].version = call[c].write) =>
                users[call[c].userId].trustScore = Clamp(call[c].newScore)
        /\ (ResetResult(c) /\ result[c].success) =>
                /\ result[c].records = 1
                /\ LET r == trustActions[result[c].record] IN
                   /\ r.userId = result[c].userId
                   /\ r.action = "manual_adjustment"
                   /\ r.createdBy = result[c].resetBy
                   /\ r.points = Clamp(result[c].newScore) - 100

\* handleChoreDispute of client c has returned
DisputeReturned(c) == job[c].op = "handleChoreDispute" /\ job[c].status = "returned"

\* C18: a handleChoreDispute with isValidDispute = true that reports success
\* has applied exactly one ledger change: false_completion, -10, to the
\* chore's assignee, attributed to the disputer, and none to the disputer.
C18_ValidDisputeOneChange ==
    \A c \in Clients :
        (DisputeReturned(c) /\ job[c].isValidDispute /\ job[c].success) =>
            LET k == job[c].calls IN
            /\ Len(k) = 1
            /\ k[1].userId = job[c].chore.assignedTo
            /\ k[1].userId # job[c].disputedBy
            /\ k[1].committed
            /\ k[1].records = 1
            /\ LET r == trustActions[k[1].record] IN
               /\ r.userId = job[c].chore.assignedTo
               /\ r.action = "false_completion"
               /\ r.points = -10
               /\ r.createdBy = job[c].disputedBy

\* C19: a handleChoreDispute with isValidDispute = false that reports success,
\* for a disputer D and a completer C that are different users, has changed
\* D's score to clamp(D - 1) by chore_disputed_invalid and C's score to
\* clamp(C + 1) by chore_confirmed, and has created exactly two records, one
\* for D and one for C.
C19_InvalidDisputeBothChange ==
    LET Clamp(x) == Max(0, Min(150, x)) IN
    \A c \in Clients :
        (DisputeReturned(c) /\ ~job[c].isValidDispute /\ job[c].success
         /\ job[c].disputedBy # job[c].chore.assignedTo) =>
            LET k == job[c].calls IN
            /\ Len(k) = 2
            /\ k[1].committed /\ k[1].records = 1
            /\ k[2].committed /\ k[2].records = 1
            /\ k[1].userId = job[c].disputedBy
            /\ k[1].newScore = Clamp(StoredOrInitial(k[1].userData) - 1)
            /\ trustActions[k[1].record].userId = job[c].disputedBy
            /\ trustActions[k[1].record].action = "chore_disputed_invalid"
            /\ k[2].userId = job[c].chore.assignedTo
            /\ k[2].newScore = Clamp(StoredOrInitial(k[2].userData) + 1)
            /\ trustActions[k[2].record].userId = job[c].chore.assignedTo
            /\ trustActions[k[2].record].action = "chore_confirmed"

\* C20: a handleChoreDispute of which any adjustTrustScore call failed does
\* not return success: true.
C20_DisputeFailureReported ==
    \A c \in Clients :
        (/\ DisputeReturned(c)
         /\ \E i \in DOMAIN job[c].calls : ~job[c].calls[i].committed) =>
            ~job[c].success

\* calculateWeeklyTrustBonus of client c has returned
SweepReturned(c) == job[c].op = "calculateWeeklyTrustBonus" /\ job[c].status = "returned"

\* the chores of the room due in the week of Today, by position
DueInWeek(roomId) ==
    {i \in DOMAIN chores :
        /\ chores[i].roomId = roomId
        /\ chores[i].dueDate \in WeekStart(Today)..(WeekStart(Today) + 6)}

\* u has at least 3 chores due in the week and at least 0.9 of them are
\* completed or confirmed
EligibleAssignee(roomId, u) ==
    LET mine == {i \in DueInWeek(roomId) : chores[i].assignedTo = u}
        done == {i \in mine : chores[i].status \in {"completed", "confirmed"}}
    IN Cardinality(mine) >= 3 /\ 10 * Cardinality(done) >= 9 * Cardinality(mine)

\* the calls of the returned run of c that committed a helpful_action bonus,
\* +5, created by "system", for u
BonusesOf(c, u) ==
    {i \in DOMAIN job[c].calls :
        /\ job[c].calls[i].userId = u
        /\ job[c].calls[i].committed
        /\ trustActions[job[c].calls[i].record].userId = u
        /\ trustActions[job[c].calls[i].record].action = "helpful_action"
        /\ trustActions[job[c].calls[i].record].points = 5
        /\ trustActions[job[c].calls[i].record].createdBy = "system"}

Assignees == {chores[i].assignedTo : i \in DOMAIN chores}

\* C21: in a run of calculateWeeklyTrustBonus that reports success, an
\* assignee has received a helpful_action bonus (+5, created by "system") if
\* and only if they have at least 3 chores due in the week with at least 0.9
\* of them completed or confirmed, and then exactly one bonus.
C21_BonusIffEligible ==
    \A c \in Clients :
        (SweepReturned(c) /\ job[c].success) =>
            \A u \in Assignees :
                /\ BonusesOf(c, u) # {} <=> EligibleAssignee(job[c].roomId, u)
                /\ Cardinality(BonusesOf(c, u)) <= 1

\* C22: the bonusesApplied a run returns is the number of bonus ledger
\* changes that committed in that run.
C22_CountsCommitted ==
    \A c \in Clients :
        (SweepReturned(c) /\ job[c].success) =>
            job[c].bonusesApplied =
                Cardinality({i \in DOMAIN job[c].calls : job[c].calls[i].committed})

\* C23: a run whose query for the week's chores failed returns a failure
\* result, has made no ledger call, and its step leaves every user document
\* and every trust action record as it was.
C23_QueryFailureAborts ==
    /\ [](\A c \in Clients :
            (SweepReturned(c) /\ Has(job[c], "queryFailed")) =>
                ~job[c].success /\ job[c].calls = << >>)
    /\ [][\A c \in Clients :
            (job'[c] # job[c] /\ job'[c].op = "calculateWeeklyTrustBonus"
             /\ job'[c].status = "returned" /\ job'[c].calls = << >>
             /\ job[c].status # "running") =>
                users' = users /\ trustActions' = trustActions]_vars

\* a run whose query failed has returned after another run committed a bonus
C23_Witness ==
    \E c \in Clients :
        /\ SweepReturned(c)
        /\ Has(job[c], "queryFailed")
        /\ ~job[c].success
        /\ trustActions # << >>

\* C26: there is no once-per-week guard: once n runs for the room have
\* returned, every eligible assignee has n helpful_action records, and each
\* run raised their score by 5, up to 150.
C26_BonusPerRun ==
    LET eligible == {u \in Assignees : EligibleAssignee(RoomId, u)} IN
    (/\ eligible # {}
     /\ \A c \in Clients : pc[c] = "idle" /\ ~Running(c)) =>
        LET n == opsDone \div Cardinality(eligible) IN
        /\ \A u \in eligible :
              /\ Cardinality(RecordsOf(u)) = n
              /\ \A i \in RecordsOf(u) : trustActions[i].action = "helpful_action"
        /\ \A c \in Clients :
              SweepReturned(c) =>
                 \A i \in DOMAIN job[c].calls :
                    /\ job[c].calls[i].committed
                    /\ job[c].calls[i].newScore =
                          Min(150, StoredOrInitial(job[c].calls[i].userData) + 5)

\* handleChoreCompletion of client c has entered its ledger call
CompletionCalled(c) == job[c].op = "handleChoreCompletion" /\ Running(c)

\* C24: handleChoreCompletion, when its query succeeded, passes to the ledger
\* a consecutiveCount equal to the number of chores the user completed within
\* the trailing 30 days in the room of the completed chore, with isRecurring
\* of the chore, action chore_completed, relatedId = chore id and createdBy =
\* the completing user.
C24_CountInSameRoom ==
    \A c \in Clients :
        (CompletionCalled(c) /\ ~job[c].queryFailed) =>
            LET p == job[c].passed
                u == job[c].completedBy
                counted == {i \in DOMAIN chores :
                              /\ chores[i].assignedTo = u
                              /\ chores[i].roomId = job[c].chore.roomId
                              /\ chores[i].status = "completed"
                              /\ chores[i].completedAt >= Today - 30}
            IN /\ p.context.consecutiveCount = Cardinality(counted)
               /\ p.context.isRecurring = job[c].chore.recurring
               /\ p.userId = u
               /\ p.actionType = "chore_completed"
               /\ p.relatedId = job[c].chore.id
               /\ p.createdBy = u

\* the user documents whose id field is uid
DocsOf(uid) == {d \in DOMAIN users : users[d].id = uid}

\* C25: after the first authentication of a uid with no user record, a user
\* record addressed by that uid exists with trustScore 100 and the history
\* entry 'Account created' with change 0; later fetchUserData calls create
\* no second record, and adjustTrustScore(uid, ...) finds the user.
C25_RecordAtUid ==
    \A uid \in auth.firstAuth :
        /\ uid \in DOMAIN users
        /\ users[uid].trustScore = 100
        /\ \E i \in DOMAIN users[uid].trustScoreHistory :
              /\ users[uid].trustScoreHistory[i].reason = "Account created"
              /\ users[uid].trustScoreHistory[i].change = 0
        /\ Cardinality(DocsOf(uid)) = 1

\* C28: once the listener has delivered the signed-out event and every
\* fetchUserData call has resolved, the exposed user is null.
C28_SignedOutMeansNoUser ==
    (auth.current = "none" /\ ~auth.loading /\ auth.tasks = {}) =>
        auth.user = NoFields

\* C27: permissions are monotone in the score: for scores a <= b in 0..150,
\* every capability getTrustRestrictions grants at a is granted at b,
\* requiresConfirmation at b implies requiresConfirmation at a, and a
\* maxChoresPerWeek cap at b is never lower than the cap at a.
C27_PermissionsMonotone ==
    out.fn = "getTrustRestrictions" =>
        LET ra == out.restrictions IN
        \A b \in arg..MAX_SCORE :
            LET rb == getTrustRestrictions(b) IN
            /\ \A cap \in {"canCreateChores", "canDisputeChores", "canManageBills",
                             "canInviteMembers", "canDeleteItems"} :
                  ra[cap] => rb[cap]
            /\ rb.requiresConfirmation => ra.requiresConfirmation
            /\ Has(rb, "maxChoresPerWeek") =>
                  /\ Has(ra, "maxChoresPerWeek")
                  /\ rb.maxChoresPerWeek >= ra.maxChoresPerWeek

\* getTrustRestrictions was applied to a critical score below a low one with
\* a higher cap
C27_Witness ==
    /\ out.fn = "getTrustRestrictions"
    /\ arg = 29
    /\ out.restrictions.maxChoresPerWeek = 2
    /\ getTrustRestrictions(30).maxChoresPerWeek = 5

\* C29: whenever processPayment returns success: false, the payment record it
\* created is not left in status 'pending': it is marked failed or was never
\* created.
C29_FailureNotLeftPending ==
    (payJob.status = "returned" /\ ~payJob.result.success) =>
        \/ payJob.paymentId = 0
        \/ payments[payJob.paymentId].status # "pending"

RECURSIVE SumAmounts(_)
SumAmounts(splits) ==
    IF splits = << >> THEN 0 ELSE Head(splits).amount + SumAmounts(Tail(splits))

\* C30: calculateBillSplits with splitMethod 'equal' over n >= 1 members
\* returns one split per member, and the amounts, counted in cents, add up to
\* exactly totalAmount.
C30_EqualSplitsAddUp ==
    out.fn = "calculateBillSplits" =>
        /\ Len(out.splits) = Len(arg.members)
        /\ SumAmounts(out.splits) = arg.totalAmount

====
